---- MODULE Spec2Model ----
(***************************************************************************)
(* Model of the ingestion / aggregation / scoring pipeline of v0-gail:     *)
(*   POST  /api/ingest       (SubmitChunk)     src/unnamed/part_005        *)
(*   POST  /api/ingest/job   (CreateJob)       src/src/app/api/ingest/job  *)
(*   PATCH /api/ingest/job   (updateJobStatus) src/src/app/api/ingest/job  *)
(*   POST  /api/profile      (generateScores)  src/unnamed/part_002        *)
(*   POST  /api/chat         (composer)        src/unnamed/part_007        *)
(* over the tables of src/scripts/001_create_schema.sql.                   *)
(*                                                                         *)
(* Every await on a storage or provider call is one step of the handler.   *)
(* A storage call ends in one of three ways: it succeeds ("ok"), it        *)
(* resolves with {error} ("error"), or it rejects ("throw").               *)
(***************************************************************************)
EXTENDS Integers, Sequences, FiniteSets, TLC

VARIABLES
    conversations,      \* table conversations: conversation_id -> row
    messages,           \* table messages: sequence of rows, in insertion order
    user_profiles,      \* table user_profiles: user_id -> row
    behavioral_scores,  \* table behavioral_scores: <<user_id, dimension>> -> row
    ingestion_jobs,     \* table ingestion_jobs: id -> row
    clock,              \* the value new Date() returns
    calls,              \* the route-handler invocations: slot -> position and locals
    okChunks,           \* history: the chunks whose SubmitChunk returned success
    faults,             \* the number of storage and provider calls that failed so far
    upload              \* the ingest page: its state and the locals of handleUpload

vars == <<conversations, messages, user_profiles, behavioral_scores,
          ingestion_jobs, clock, calls, okChunks, faults, upload>>

(***************************************************************************)
(* Bounds of the model.                                                    *)
(***************************************************************************)
MaxTime == 2
MaxCalls == 2
MaxChunkLen == 2
MaxFaults == 1
MaxScores == 2

(***************************************************************************)
(* Values.                                                                 *)
(***************************************************************************)
\* a missing or empty optional string (model, language, error_message)
NoStr == ""
\* a missing conversation_turn / a missing processedRecords
Undefined == -1

Slots == 1..MaxCalls
Statuses == {"pending", "processing", "completed", "failed"}

Range(s) == {s[i] : i \in DOMAIN s}

Max(S) == CHOOSE x \in S : \A y \in S : y <= x

RECURSIVE SumSeq(_)
SumSeq(s) == IF s = <<>> THEN 0 ELSE s[1] + SumSeq(Tail(s))

\* the elements of s in order of first appearance (Array.from(new Set(...)))
RECURSIVE Distinct(_)
Distinct(s) ==
    IF s = <<>> THEN <<>>
    ELSE LET n == Len(s)
             r == Distinct(SubSeq(s, 1, n - 1))
         IN IF s[n] \in Range(r) THEN r ELSE Append(r, s[n])

\* Math.round(x * 100) / 100 for x = num / den >= 0, in hundredths
Round2(num, den) == (200 * num + den) \div (2 * den)

(***************************************************************************)
(* Input records.                                                          *)
(***************************************************************************)
ConversationRecord(u, c, i, t, l, m) ==
    [user_id |-> u, conversation_id |-> c, message_index |-> i,
     conversation_turn |-> t, language |-> l, model |-> m]

\* The records of the uploaded file, in file order: conversation c1 of user
\* u1 with turns 1, 2, 3, a second conversation of u1 without turn, language
\* or model, and a conversation of user u2.
File ==
    <<ConversationRecord("u1", "c1", 0, 1, "en", "gpt-4"),
      ConversationRecord("u1", "c1", 1, 2, "en", "gpt-4"),
      ConversationRecord("u1", "c1", 2, 3, "fr", "gpt-4"),
      ConversationRecord("u1", "c2", 0, Undefined, NoStr, NoStr),
      ConversationRecord("u2", "c3", 0, 1, "en", "vicuna")>>

\* The chunks a client may send: the contiguous slices of the file of at
\* most MaxChunkLen records (any slice, so that chunks may overlap or repeat).
Chunks ==
    {SubSeq(File, ij[1], ij[2]) :
        ij \in {x \in (1..Len(File)) \X (1..Len(File)) :
                    x[1] <= x[2] /\ x[2] - x[1] < MaxChunkLen}}

\* The `records` value of a request body: absent, a non-array value (a
\* non-empty string), or an array (possibly empty).
RecordsValues ==
    {[kind |-> k, items |-> <<>>] : k \in {"undefined", "string", "array"}}
    \cup {[kind |-> "array", items |-> ch] : ch \in Chunks}

(***************************************************************************)
(* POST /api/ingest: the pure part.                                        *)
(***************************************************************************)
\* InvalidRecords without the test of the length
InvalidRecords_NoLengthTest(body) ==
    \/ body.kind = "undefined"
    \/ body.kind # "array"

\* !records || !Array.isArray(records) || records.length === 0
InvalidRecords(body) ==
    \/ body.kind = "undefined"
    \/ body.kind # "array"
    \/ Len(body.items) = 0

\* convMap: the keys, and for one key the group of its records in order
ConvKeys(records) == {records[i].conversation_id : i \in DOMAIN records}

ConvMessages(records, c) == SelectSeq(records, LAMBDA r : r.conversation_id = c)

\* m.conversation_turn ?? 0
TurnOrZero(r) == IF r.conversation_turn = Undefined THEN 0 ELSE r.conversation_turn

\* one element of convRows; userId, model and language come from the first
\* record of the group
ConvRow(records, c) ==
    LET group == ConvMessages(records, c)
    IN [conversation_id |-> c,
        user_id         |-> group[1].user_id,
        model           |-> group[1].model,
        language        |-> group[1].language,
        turn_count      |-> Max({TurnOrZero(group[i]) : i \in DOMAIN group}),
        message_count   |-> Len(group)]

\* .upsert(convRows, { onConflict: "conversation_id" }): every column of a
\* row given replaces the stored one
UpsertConversations(table, records) ==
    [c \in DOMAIN table \cup ConvKeys(records) |->
        IF c \in ConvKeys(records) THEN ConvRow(records, c) ELSE table[c]]

\* one element of msgRows
MsgRow(r) ==
    [conversation_id   |-> r.conversation_id,
     user_id           |-> r.user_id,
     message_index     |-> r.message_index,
     conversation_turn |-> r.conversation_turn]

\* .insert(msgRows): the table has no unique key but its generated id
InsertMessages(table, records) ==
    table \o [i \in DOMAIN records |-> MsgRow(records[i])]

\* userMap: the keys, and for one key the records of that user in order
UserKeys(records) == {records[i].user_id : i \in DOMAIN records}

UserRecords(records, u) == SelectSeq(records, LAMBDA r : r.user_id = u)

\* the values of field f over s that are truthy strings, in order
Truthy(s, f) ==
    LET kept == SelectSeq(s, LAMBDA r : r[f] # NoStr)
    IN [i \in DOMAIN kept |-> kept[i][f]]

\* if (record.conversation_turn) u.turnCounts.push(record.conversation_turn)
TurnCounts(s) ==
    LET kept == SelectSeq(s, LAMBDA r : r.conversation_turn # Undefined
                                        /\ r.conversation_turn # 0)
    IN [i \in DOMAIN kept |-> kept[i].conversation_turn]

\* one element of profileRows, built at time now; averages in hundredths
ProfileRow(records, u, now) ==
    LET mine   == UserRecords(records, u)
        convs  == {mine[i].conversation_id : i \in DOMAIN mine}
        turns  == TurnCounts(mine)
    IN [user_id                       |-> u,
        total_conversations           |-> Cardinality(convs),
        total_messages                |-> Len(mine),
        languages                     |-> Distinct(Truthy(mine, "language")),
        models_used                   |-> Distinct(Truthy(mine, "model")),
        avg_turns_per_conversation    |->
            IF Len(turns) > 0 THEN Round2(SumSeq(turns), Len(turns)) ELSE 0,
        avg_messages_per_conversation |-> Round2(Len(mine), Cardinality(convs)),
        first_seen                    |-> now,
        last_seen                     |-> now,
        updated_at                    |-> now]

\* the stored row after the upsert of one profile row: the columns given
\* replace the stored ones, profile_generated keeps its value (default false)
StoredProfile(table, row) ==
    [user_id                       |-> row.user_id,
     total_conversations           |-> row.total_conversations,
     total_messages                |-> row.total_messages,
     languages                     |-> row.languages,
     models_used                   |-> row.models_used,
     avg_turns_per_conversation    |-> row.avg_turns_per_conversation,
     avg_messages_per_conversation |-> row.avg_messages_per_conversation,
     first_seen                    |-> row.first_seen,
     last_seen                     |-> row.last_seen,
     updated_at                    |-> row.updated_at,
     profile_generated             |->
        IF row.user_id \in DOMAIN table
        THEN table[row.user_id].profile_generated ELSE FALSE]

\* .upsert(profileRows, { onConflict: "user_id" })
UpsertProfiles(table, records, now) ==
    [u \in DOMAIN table \cup UserKeys(records) |->
        IF u \in UserKeys(records)
        THEN StoredProfile(table, ProfileRow(records, u, now))
        ELSE table[u]]

\* UpdateJobProgress that also marks the job completed once every record of
\* the job has been processed
UpdateJobProgress_SetsStatus(table, jobId, records) ==
    [j \in DOMAIN table |->
        IF j = jobId
        THEN [table[j] EXCEPT !.processed_records = Len(records),
                              !.status = IF Len(records) >= 1
                                         THEN "completed" ELSE @]
        ELSE table[j]]

\* .update({ processed_records: records.length, updated_at }).eq("id", jobId)
UpdateJobProgress(table, jobId, records) ==
    [j \in DOMAIN table |->
        IF j = jobId
        THEN [table[j] EXCEPT !.processed_records = Len(records)]
        ELSE table[j]]

(***************************************************************************)
(* Route-handler invocations.                                              *)
(***************************************************************************)
IdleCall ==
    [op |-> "none", pc |-> "idle", jobId |-> "",
     body |-> [kind |-> "undefined", items |-> <<>>],
     userId |-> NoStr, output |-> <<>>, k |-> 0, pre |-> <<>>,
     profile |-> <<>>, prompt |-> <<>>,
     status |-> 0, error |-> NoStr]

\* NextResponse.json(..., { status }): the handler is over
Respond(call, status, error) ==
    [call EXCEPT !.pc = "done", !.status = status, !.error = error]

Free(s) == calls[s].pc \in {"idle", "done"}

\* a storage or provider call fails (at most MaxFaults of them do)
Fault == faults < MaxFaults /\ faults' = faults + 1

Quiescent == \A s \in Slots : Free(s)

\* the ingest page as it is mounted: useState({ status: "idle", ...,
\* jobId: null }), no upload running. status, jobId and error are fields of
\* `state`; the others are handleUpload's position and locals, `closure`
\* being the state.jobId its closure holds.
IdleUpload ==
    [status |-> "idle", jobId |-> NoStr, error |-> NoStr,
     pc |-> "idle", closure |-> NoStr,
     records |-> <<>>, chunks |-> <<>>, job |-> NoStr, i |-> 0,
     totalProcessed |-> 0, msg |-> NoStr]

Init ==
    /\ upload = IdleUpload
    /\ conversations = <<>>
    /\ messages = <<>>
    /\ user_profiles = <<>>
    /\ behavioral_scores = <<>>
    /\ ingestion_jobs = <<>>
    /\ clock = 0
    /\ calls = [s \in Slots |-> IdleCall]
    /\ okChunks = <<>>
    /\ faults = 0

(***************************************************************************)
(* POST /api/ingest/job                                                    *)
(***************************************************************************)
Filenames == {"data.jsonl"}

\* The ids the table generates, in order. One file is uploaded, so one job
\* is created.
JobIds == {"job-1"}


\* the row .insert({ filename, status: "processing", total_records,
\* processed_records: 0 }) stores (created_at and updated_at, which no
\* handler reads, are left out of the rows of this table)
NewJob(filename, totalRecords) ==
    [filename          |-> filename,
     status            |-> "processing",
     total_records     |-> totalRecords,
     processed_records |-> 0,
     error_message     |-> NoStr]

\* The handler, as the server runs it. It reads no clock (the timestamps of
\* the row are the defaults of the table). An insert that returns an error
\* stores nothing and the handler answers 500: no state changes.
InsertJob(filename, totalRecords) ==
    /\ LET id == CHOOSE j \in JobIds : TRUE
       IN /\ id \notin DOMAIN ingestion_jobs
          /\ ingestion_jobs' =
                [j \in DOMAIN ingestion_jobs \cup {id} |->
                    IF j = id THEN NewJob(filename, totalRecords)
                    ELSE ingestion_jobs[j]]
    /\ UNCHANGED <<conversations, messages, user_profiles, behavioral_scores,
                   clock, calls, okChunks, faults>>

\* createJob, called by a client other than the ingest page
CreateJob(filename, totalRecords) ==
    /\ InsertJob(filename, totalRecords)
    /\ UNCHANGED upload

(***************************************************************************)
(* PATCH /api/ingest/job                                                   *)
(***************************************************************************)
\* the object `update`, applied to the stored row; an undefined status is
\* dropped from the request
PatchedJob(row, status, processedRecords, errorMessage) ==
    [row EXCEPT
        !.status            = IF status = NoStr THEN @ ELSE status,
        !.processed_records = IF processedRecords # Undefined
                              THEN processedRecords ELSE @,
        !.error_message     = IF errorMessage # NoStr THEN errorMessage ELSE @]

\* the processedRecords and errorMessage a client may send
ProcessedValues == {Undefined, 0, 1}
ErrorMessages == {NoStr, "Chunk upload failed"}

\* the handler, as the server runs it
PatchJob(jobId, status, processedRecords, errorMessage) ==
    /\ clock' = clock + 1
    /\ \/ ingestion_jobs' =
            [j \in DOMAIN ingestion_jobs |->
                IF j = jobId
                THEN PatchedJob(ingestion_jobs[j], status, processedRecords,
                                errorMessage)
                ELSE ingestion_jobs[j]]
       \/ UNCHANGED ingestion_jobs      \* the update returned an error: 500
    /\ UNCHANGED <<conversations, messages, user_profiles, behavioral_scores,
                   calls, okChunks, faults>>

\* updateJobStatus, called by a client other than the ingest page (at most
\* MaxTime requests that read the clock are made)
UpdateJobStatus(jobId, status, processedRecords, errorMessage) ==
    /\ clock < MaxTime
    /\ PatchJob(jobId, status, processedRecords, errorMessage)
    /\ UNCHANGED upload

(***************************************************************************)
(* POST /api/ingest                                                        *)
(***************************************************************************)
Records(s) == calls[s].body.items

\* PostIngest of a server that takes a request only when no other
\* invocation is running
PostIngest_OneAtATime(s, jobId, body) ==
    /\ Quiescent
    /\ clock' = clock + 1
    /\ LET call == [IdleCall EXCEPT !.op = "ingest", !.jobId = jobId, !.body = body]
       IN calls' = [calls EXCEPT ![s] =
                        IF InvalidRecords(body)
                        THEN Respond(call, 400, "No records provided")
                        ELSE [call EXCEPT !.pc = "convUpsert"]]
    /\ UNCHANGED <<conversations, messages, user_profiles, behavioral_scores,
                   ingestion_jobs, okChunks, faults>>

\* lines 18-33: parse the body, validate, create the client
PostIngest(s, jobId, body) ==
    /\ Free(s)
    /\ clock' = clock + 1
    /\ LET call == [IdleCall EXCEPT !.op = "ingest", !.jobId = jobId, !.body = body]
       IN calls' = [calls EXCEPT ![s] =
                        IF InvalidRecords(body)
                        THEN Respond(call, 400, "No records provided")
                        ELSE [call EXCEPT !.pc = "convUpsert"]]
    /\ UNCHANGED <<conversations, messages, user_profiles, behavioral_scores,
                   ingestion_jobs, okChunks, faults>>

\* SubmitChunk, called by a client other than the ingest page
SubmitChunk(s, jobId, body) ==
    /\ clock < MaxTime
    /\ PostIngest(s, jobId, body)
    /\ UNCHANGED upload

\* lines 35-79
ConvUpsert(s) ==
    /\ calls[s].op = "ingest" /\ calls[s].pc = "convUpsert"
    /\ \/ /\ conversations' = UpsertConversations(conversations, Records(s))
          /\ calls' = [calls EXCEPT ![s].pc = "msgInsert"]
          /\ UNCHANGED faults
       \/ /\ calls' = [calls EXCEPT ![s] =
                        Respond(@, 500, "Conversation insert failed")]
          /\ Fault
          /\ UNCHANGED conversations
       \/ /\ calls' = [calls EXCEPT ![s] = Respond(@, 500, "Internal server error")]
          /\ Fault
          /\ UNCHANGED conversations
    /\ UNCHANGED <<upload, messages, user_profiles, behavioral_scores, ingestion_jobs,
                   clock, okChunks>>

\* MsgInsert with the error of the insert only logged, as the error of the
\* profile upsert is
MsgInsert_ErrorIgnored(s) ==
    /\ calls[s].op = "ingest" /\ calls[s].pc = "msgInsert"
    /\ \/ /\ messages' = InsertMessages(messages, Records(s))
          /\ calls' = [calls EXCEPT ![s].pc = "profileUpsert"]
          /\ UNCHANGED faults
       \/ /\ calls' = [calls EXCEPT ![s].pc = "profileUpsert"]
          /\ Fault
          /\ UNCHANGED messages
       \/ /\ calls' = [calls EXCEPT ![s] = Respond(@, 500, "Internal server error")]
          /\ Fault
          /\ UNCHANGED messages
    /\ UNCHANGED <<upload, conversations, user_profiles, behavioral_scores, ingestion_jobs,
                   clock, okChunks>>

\* lines 81-100
MsgInsert(s) ==
    /\ calls[s].op = "ingest" /\ calls[s].pc = "msgInsert"
    /\ \/ /\ messages' = InsertMessages(messages, Records(s))
          /\ calls' = [calls EXCEPT ![s].pc = "profileUpsert"]
          /\ UNCHANGED faults
       \/ /\ calls' = [calls EXCEPT ![s] = Respond(@, 500, "Message insert failed")]
          /\ Fault
          /\ UNCHANGED messages
       \/ /\ calls' = [calls EXCEPT ![s] = Respond(@, 500, "Internal server error")]
          /\ Fault
          /\ UNCHANGED messages
    /\ UNCHANGED <<upload, conversations, user_profiles, behavioral_scores, ingestion_jobs,
                   clock, okChunks>>

\* lines 102-158: an error of the upsert is logged and the handler goes on
ProfileUpsert(s) ==
    /\ calls[s].op = "ingest" /\ calls[s].pc = "profileUpsert"
    /\ \/ /\ user_profiles' = UpsertProfiles(user_profiles, Records(s), clock)
          /\ calls' = [calls EXCEPT ![s].pc = "jobUpdate"]
          /\ UNCHANGED faults
       \/ /\ calls' = [calls EXCEPT ![s].pc = "jobUpdate"]
          /\ Fault
          /\ UNCHANGED user_profiles
       \/ /\ calls' = [calls EXCEPT ![s] = Respond(@, 500, "Internal server error")]
          /\ Fault
          /\ UNCHANGED user_profiles
    /\ UNCHANGED <<upload, conversations, messages, behavioral_scores, ingestion_jobs,
                   clock, okChunks>>

\* lines 160-175: the result of the update is not looked at
JobUpdate(s) ==
    /\ calls[s].op = "ingest" /\ calls[s].pc = "jobUpdate"
    /\ \/ /\ ingestion_jobs' = UpdateJobProgress(ingestion_jobs, calls[s].jobId,
                                                 Records(s))
          /\ calls' = [calls EXCEPT ![s] = Respond(@, 200, NoStr)]
          /\ okChunks' = Append(okChunks, [jobId |-> calls[s].jobId,
                                           records |-> Records(s)])
          /\ UNCHANGED faults
       \/ /\ calls' = [calls EXCEPT ![s] = Respond(@, 200, NoStr)]
          /\ okChunks' = Append(okChunks, [jobId |-> calls[s].jobId,
                                           records |-> Records(s)])
          /\ Fault
          /\ UNCHANGED ingestion_jobs
       \/ /\ calls' = [calls EXCEPT ![s] = Respond(@, 500, "Internal server error")]
          /\ Fault
          /\ UNCHANGED <<ingestion_jobs, okChunks>>
    /\ UNCHANGED <<upload, conversations, messages, user_profiles, behavioral_scores, clock>>

\* the body of a successful response
IngestResponse(call) ==
    [success       |-> TRUE,
     processed     |-> Len(call.body.items),
     conversations |-> Cardinality(ConvKeys(call.body.items)),
     users         |-> Cardinality(UserKeys(call.body.items))]

(***************************************************************************)
(* The server under a client that sends one request at a time.            *)
(***************************************************************************)
Next ==
    \/ \E f \in Filenames, n \in {Len(File)} : CreateJob(f, n)
    \/ \E j \in JobIds, st \in Statuses \cup {NoStr},
          pr \in ProcessedValues,
          em \in ErrorMessages : UpdateJobStatus(j, st, pr, em)
    \/ \E j \in JobIds, b \in RecordsValues : SubmitChunk(1, j, b)
    \/ \E s \in Slots : ConvUpsert(s)
    \/ \E s \in Slots : MsgInsert(s)
    \/ \E s \in Slots : ProfileUpsert(s)
    \/ \E s \in Slots : JobUpdate(s)

Spec == Init /\ [][Next]_vars

(***************************************************************************)
(* POST /api/profile (generateScores)                                      *)
(***************************************************************************)
DIMENSIONS ==
    <<"Patience", "Technical Depth", "Frustration Tolerance", "Verbosity",
      "Politeness", "Engagement Level">>

\* .limit(200)
MessageLimit == 200

UserIds == {"u1", "u2"}

\* What the provider may return as result.output.scores: BehavioralProfileSchema
\* takes any string as dimension and any number as score.
OutputDimensions == {"Patience", "Verbosity", "Mood"}
OutputScores == {0, 2, 8}

ScoreEntry(d, v) ==
    [dimension |-> d, score |-> v, confidence |-> 1,
     evidence_summary |-> IF v >= 7 THEN "high" ELSE "low"]

Outputs ==
    {<<>>}
    \cup {<<ScoreEntry(d, v)>> : d \in OutputDimensions, v \in OutputScores}
    \cup {<<ScoreEntry(dd[1], v), ScoreEntry(dd[2], w)>> :
            dd \in {x \in OutputDimensions \X OutputDimensions : x[1] # x[2]},
            v \in OutputScores, w \in {8}}

\* .select(...).eq("user_id", userId).order("message_index").limit(200):
\* the rows of the user, at most MessageLimit of them (their order plays no
\* part in what the handler stores)
RECURSIVE SortByIndex(_)
SortByIndex(rows) ==
    IF rows = <<>> THEN <<>>
    ELSE LET least == CHOOSE i \in DOMAIN rows :
                        \A j \in DOMAIN rows :
                            \/ rows[i].message_index < rows[j].message_index
                            \/ (rows[i].message_index = rows[j].message_index /\ i <= j)
             rest == [j \in 1..(Len(rows) - 1) |->
                        IF j < least THEN rows[j] ELSE rows[j + 1]]
         IN <<rows[least]>> \o SortByIndex(rest)

\* SelectMessagesOf without the filter .eq("user_id", userId)
SelectMessagesOf_AnyUser(table, u) ==
    LET mine == SortByIndex(table)
    IN IF Len(mine) <= MessageLimit THEN mine ELSE SubSeq(mine, 1, MessageLimit)

SelectMessagesOf(table, u) ==
    LET mine == SortByIndex(SelectSeq(table, LAMBDA r : r.user_id = u))
    IN IF Len(mine) <= MessageLimit THEN mine ELSE SubSeq(mine, 1, MessageLimit)

\* the stored scores of user u: dimension -> row
ScoresOf(table, u) ==
    [d \in {k[2] : k \in {x \in DOMAIN table : x[1] = u}} |-> table[<<u, d>>]]

\* the constraints of table behavioral_scores on a new or updated row:
\* the foreign key to user_profiles and the two checks
ScoreRowAccepted(profiles, u, entry) ==
    /\ u \in DOMAIN profiles
    /\ entry.score >= 1 /\ entry.score <= 10
    /\ entry.confidence >= 0 /\ entry.confidence <= 1

\* .upsert({ user_id, dimension, score, confidence, evidence_summary,
\* updated_at }, { onConflict: "user_id,dimension" })
UpsertScore(table, profiles, u, entry, now) ==
    IF ScoreRowAccepted(profiles, u, entry)
    THEN [key \in DOMAIN table \cup {<<u, entry.dimension>>} |->
            IF key = <<u, entry.dimension>>
            THEN [score            |-> entry.score,
                  confidence       |-> entry.confidence,
                  evidence_summary |-> entry.evidence_summary,
                  updated_at       |-> now]
            ELSE table[key]]
    ELSE table

\* .update({ profile_generated: true, updated_at }).eq("user_id", userId)
MarkProfileGenerated(table, u, now) ==
    [x \in DOMAIN table |->
        IF x = u
        THEN [table[x] EXCEPT !.profile_generated = TRUE, !.updated_at = now]
        ELSE table[x]]

\* lines 28-38
GenerateScores(s, userId) ==
    /\ clock < MaxTime
    /\ Free(s)
    /\ clock' = clock + 1
    /\ LET call == [IdleCall EXCEPT !.op = "profile", !.userId = userId,
                                    !.pre = ScoresOf(behavioral_scores, userId)]
       IN calls' = [calls EXCEPT ![s] =
                        IF userId = NoStr
                        THEN Respond(call, 400, "userId is required")
                        ELSE [call EXCEPT !.pc = "selectMessages"]]
    /\ UNCHANGED <<upload, conversations, messages, user_profiles, behavioral_scores,
                   ingestion_jobs, okChunks, faults>>

\* lines 40-53: no data (an error of the select) and no rows both end in 404
SelectMessages(s) ==
    /\ calls[s].op = "profile" /\ calls[s].pc = "selectMessages"
    /\ \/ /\ calls' = [calls EXCEPT ![s] =
                        IF Len(SelectMessagesOf(messages, calls[s].userId)) = 0
                        THEN Respond(@, 404, "No messages found for this user")
                        ELSE [@ EXCEPT !.pc = "generateText"]]
          /\ UNCHANGED faults
       \/ /\ calls' = [calls EXCEPT ![s] =
                        Respond(@, 404, "No messages found for this user")]
          /\ Fault
       \/ /\ calls' = [calls EXCEPT ![s] =
                        Respond(@, 500, "Failed to generate profile")]
          /\ Fault
    /\ UNCHANGED <<upload, conversations, messages, user_profiles, behavioral_scores,
                   ingestion_jobs, clock, okChunks>>

\* lines 55-92: the provider returns an output, returns none, or throws
GenerateText(s) ==
    /\ calls[s].op = "profile" /\ calls[s].pc = "generateText"
    /\ \/ /\ \E out \in Outputs :
                calls' = [calls EXCEPT ![s] =
                            [@ EXCEPT !.output = out, !.k = 1,
                                      !.pc = IF out = <<>> THEN "markProfile"
                                             ELSE "upsertScore"]]
          /\ UNCHANGED faults
       \/ /\ calls' = [calls EXCEPT ![s] =
                        Respond(@, 500, "Failed to generate profile")]
          /\ Fault
    /\ UNCHANGED <<upload, conversations, messages, user_profiles, behavioral_scores,
                   ingestion_jobs, clock, okChunks>>

\* AfterUpsert with the loop left after its first turn
AfterUpsert_StopsEarly(call) ==
    [call EXCEPT !.k = @ + 1, !.pc = "markProfile"]

\* the position after the upsert of scores[k]
AfterUpsert(call) ==
    [call EXCEPT !.k = @ + 1,
                 !.pc = IF call.k = Len(call.output) THEN "markProfile"
                        ELSE "upsertScore"]

\* lines 94-107: one turn of the loop; the result of the upsert is not
\* looked at
UpsertScoreStep(s) ==
    /\ calls[s].op = "profile" /\ calls[s].pc = "upsertScore"
    /\ \/ /\ behavioral_scores' =
                UpsertScore(behavioral_scores, user_profiles, calls[s].userId,
                            calls[s].output[calls[s].k], clock)
          /\ calls' = [calls EXCEPT ![s] = AfterUpsert(@)]
          /\ UNCHANGED faults
       \/ /\ calls' = [calls EXCEPT ![s] = AfterUpsert(@)]
          /\ Fault
          /\ UNCHANGED behavioral_scores
       \/ /\ calls' = [calls EXCEPT ![s] =
                        Respond(@, 500, "Failed to generate profile")]
          /\ Fault
          /\ UNCHANGED behavioral_scores
    /\ UNCHANGED <<upload, conversations, messages, user_profiles, ingestion_jobs,
                   clock, okChunks>>

\* lines 109-118
MarkProfile(s) ==
    /\ calls[s].op = "profile" /\ calls[s].pc = "markProfile"
    /\ \/ /\ user_profiles' =
                MarkProfileGenerated(user_profiles, calls[s].userId, clock)
          /\ calls' = [calls EXCEPT ![s] = Respond(@, 200, NoStr)]
          /\ UNCHANGED faults
       \/ /\ calls' = [calls EXCEPT ![s] = Respond(@, 200, NoStr)]
          /\ Fault
          /\ UNCHANGED user_profiles
       \/ /\ calls' = [calls EXCEPT ![s] =
                        Respond(@, 500, "Failed to generate profile")]
          /\ Fault
          /\ UNCHANGED user_profiles
    /\ UNCHANGED <<upload, conversations, messages, behavioral_scores, ingestion_jobs,
                   clock, okChunks>>

\* The chunks ingested before scoring and chat are looked at: one of user u1
\* alone, and one of u1 (without language or model) and u2.
StoredChunks == {SubSeq(File, 1, 1), SubSeq(File, 4, 5)}

\* The storage after one chunk was ingested by a SubmitChunk that returned
\* success (for a job id that matches no row), its profile upsert having
\* succeeded or not; or the empty storage. Time is counted from that call.
InitScores ==
    /\ upload = IdleUpload
    /\ behavioral_scores = <<>>
    /\ ingestion_jobs = <<>>
    /\ \/ /\ conversations = <<>>
          /\ messages = <<>>
          /\ user_profiles = <<>>
          /\ clock = 0
          /\ calls = [s \in Slots |-> IdleCall]
          /\ okChunks = <<>>
          /\ faults = 0
       \/ \E ch \in StoredChunks, profileOk \in BOOLEAN :
            /\ conversations = UpsertConversations(<<>>, ch)
            /\ messages = InsertMessages(<<>>, ch)
            /\ user_profiles = IF profileOk THEN UpsertProfiles(<<>>, ch, 0)
                               ELSE <<>>
            /\ clock = 0
            /\ calls = [s \in Slots |->
                          IF s = 1
                          THEN Respond([IdleCall EXCEPT
                                          !.op = "ingest", !.jobId = "job-1",
                                          !.body = [kind |-> "array", items |-> ch]],
                                       200, NoStr)
                          ELSE IdleCall]
            /\ okChunks = <<[jobId |-> "job-1", records |-> ch]>>
            /\ faults = IF profileOk THEN 0 ELSE 1

NextScores ==
    \/ \E u \in UserIds \cup {NoStr} : GenerateScores(1, u)
    \/ \E s \in Slots : SelectMessages(s)
    \/ \E s \in Slots : GenerateText(s)
    \/ \E s \in Slots : UpsertScoreStep(s)
    \/ \E s \in Slots : MarkProfile(s)

SpecScores == InitScores /\ [][NextScores]_vars

(***************************************************************************)
(* POST /api/chat: buildAdaptiveSystemPrompt                               *)
(*                                                                         *)
(* A prompt is the sequence of its lines. A line is literal text, a line   *)
(* of the scores summary ("  <dimension>: <score>/10 (<evidence>)") or the *)
(* line of the profile summary ("User context: <n> past conversations,     *)
(* languages: <list>").                                                    *)
(***************************************************************************)
TextLine(t) == [kind |-> "text", text |-> t, num |-> 0, list |-> <<>>]

BlankLine == TextLine("")

basePrompt ==
    TextLine("You are Gail, an adaptive conversational AI. You adjust your communication style based on the behavioral profile of the user you're speaking with.")

NeutralFallback ==
    TextLine("No behavioral profile is available for this user. Use a balanced, neutral communication style. Be helpful and attentive.")

BalancedStyle == TextLine("Use a balanced communication style.")

ImportantNote ==
    TextLine("IMPORTANT: Adapt your style naturally. Do NOT mention that you have a behavioral profile or scores. Do NOT reference the scoring system. Just naturally adjust how you communicate.")

DefaultPrompt == TextLine("You are Gail, a helpful conversational AI assistant.")

\* the text pushed when the score of the dimension is <= 3
LowDirective ==
    [d \in Range(DIMENSIONS) |->
        CASE d = "Patience" ->
                "This user is IMPATIENT. Get to the point quickly. Use short, direct sentences. Skip preambles."
          [] d = "Technical Depth" ->
                "This user is NON-TECHNICAL. Avoid jargon. Use simple analogies. Explain concepts in plain language."
          [] d = "Frustration Tolerance" ->
                "This user has LOW frustration tolerance. Be extra careful with errors. Acknowledge mistakes quickly. Stay calm and reassuring."
          [] d = "Verbosity" ->
                "This user prefers BREVITY. Keep responses short and concise. Use bullet points. Minimize filler text."
          [] d = "Politeness" ->
                "This user is direct/informal. Match their tone. Skip excessive pleasantries. Be straightforward."
          [] d = "Engagement Level" ->
                "This user has LOW engagement. Keep it simple, answer directly, don't push for deeper conversation."]

\* the text pushed when the score of the dimension is >= 7
HighDirective ==
    [d \in Range(DIMENSIONS) |->
        CASE d = "Patience" ->
                "This user is patient. You can take time to explain thoroughly and provide context."
          [] d = "Technical Depth" ->
                "This user is HIGHLY TECHNICAL. Use precise terminology. Skip basic explanations. Engage at expert level."
          [] d = "Frustration Tolerance" ->
                "This user handles frustration well. You can be more direct about limitations without excessive hedging."
          [] d = "Verbosity" ->
                "This user appreciates DETAILED responses. Provide thorough explanations, examples, and context."
          [] d = "Politeness" ->
                "This user values politeness. Use warm, courteous language. Include greetings and acknowledgments."
          [] d = "Engagement Level" ->
                "This user is HIGHLY ENGAGED. Ask follow-up questions. Explore topics deeper. Encourage dialogue."]

\* Object.fromEntries(scores.map((s) => [s.dimension, s])): for a dimension
\* given more than once the last row stays
ScoreMap(scores) ==
    [d \in {scores[i].dimension : i \in DOMAIN scores} |->
        scores[Max({i \in DOMAIN scores : scores[i].dimension = d})]]

\* Adaptation with < 3 for <= 3
Adaptation_StrictLow(scoreMap, d) ==
    IF d \notin DOMAIN scoreMap THEN <<>>
    ELSE IF scoreMap[d].score < 3 THEN <<LowDirective[d]>>
    ELSE IF scoreMap[d].score >= 7 THEN <<HighDirective[d]>>
    ELSE <<>>

\* one of the six blocks `const x = scoreMap[d]; if (x) { if (x.score <= 3)
\* push(low) else if (x.score >= 7) push(high) }`: what it pushes
Adaptation(scoreMap, d) ==
    IF d \notin DOMAIN scoreMap THEN <<>>
    ELSE IF scoreMap[d].score <= 3 THEN <<LowDirective[d]>>
    ELSE IF scoreMap[d].score >= 7 THEN <<HighDirective[d]>>
    ELSE <<>>

\* Adaptations with the blocks run in the order of the rows given
Adaptations_InputOrder(scores) ==
    LET m == ScoreMap(scores)
        pushed[i \in 0..Len(scores)] ==
            IF i = 0 THEN <<>>
            ELSE pushed[i - 1] \o
                 (IF scores[i].dimension \in Range(DIMENSIONS)
                  THEN Adaptation(m, scores[i].dimension) ELSE <<>>)
    IN pushed[Len(scores)]

\* the array adaptations after the six blocks, in the order of the code
Adaptations(scores) ==
    LET m == ScoreMap(scores)
    IN Adaptation(m, "Patience")
       \o Adaptation(m, "Technical Depth")
       \o Adaptation(m, "Frustration Tolerance")
       \o Adaptation(m, "Verbosity")
       \o Adaptation(m, "Politeness")
       \o Adaptation(m, "Engagement Level")

\* profileSummary: "" for no profile, else a line break and the context
\* line; profile is <<>> (null) or <<row>>
ContextLine(row) ==
    [kind |-> "context", text |-> "User context",
     num  |-> row.total_conversations,
     list |-> IF row.languages = <<>> THEN <<"unknown">> ELSE row.languages]

\* the lines of `${profileSummary}` in the template: profileSummary is ""
\* for no profile (one empty line), else a line break and the context line;
\* profile is <<>> for null, else <<row>>
ProfileSummary(profile) ==
    IF profile = <<>> THEN <<BlankLine>>
    ELSE <<BlankLine, ContextLine(profile[1])>>

SummaryLine(row) ==
    [kind |-> "score", text |-> row.dimension, num |-> row.score,
     list |-> IF row.evidence_summary # NoStr THEN <<row.evidence_summary>>
              ELSE <<>>]

\* ScoresSummary without the rows of dimensions the composer has no block for
ScoresSummary_KnownDimensions(scores) ==
    LET known == SelectSeq(scores, LAMBDA r : r.dimension \in Range(DIMENSIONS))
    IN [i \in DOMAIN known |-> SummaryLine(known[i])]

\* scores.map(...).join("\n"): one line per row given, in the order given
ScoresSummary(scores) == [i \in DOMAIN scores |-> SummaryLine(scores[i])]

\* BuildAdaptiveSystemPrompt without the early return for no scores
BuildAdaptiveSystemPrompt_NoFallback(scores, profile) ==
    LET adaptations == Adaptations(scores)
    IN <<basePrompt>> \o ProfileSummary(profile)
       \o <<BlankLine, TextLine("Behavioral scores:")>> \o ScoresSummary(scores)
       \o <<BlankLine, TextLine("Adaptation instructions:")>>
       \o (IF Len(adaptations) > 0
           THEN [i \in DOMAIN adaptations |-> TextLine(adaptations[i])]
           ELSE <<BalancedStyle>>)
       \o <<BlankLine, ImportantNote>>

BuildAdaptiveSystemPrompt(scores, profile) ==
    IF Len(scores) = 0
    THEN <<basePrompt, BlankLine, NeutralFallback>>
    ELSE LET adaptations == Adaptations(scores)
         IN <<basePrompt>> \o ProfileSummary(profile)
            \o <<BlankLine, TextLine("Behavioral scores:")>>
            \o ScoresSummary(scores)
            \o <<BlankLine, TextLine("Adaptation instructions:")>>
            \o (IF Len(adaptations) > 0
                THEN [i \in DOMAIN adaptations |-> TextLine(adaptations[i])]
                ELSE <<BalancedStyle>>)
            \o <<BlankLine, ImportantNote>>

(***************************************************************************)
(* POST /api/chat: the handler, up to the system prompt                    *)
(***************************************************************************)
\* the orders in which a select without .order() may return the rows S
Orderings(S) ==
    {q \in [1..Cardinality(S) -> S] : \A i, j \in DOMAIN q : i # j => q[i] # q[j]}

\* .from("behavioral_scores").select("dimension, score, evidence_summary")
\* .eq("user_id", userId): the rows, as a set
SelectScores(table, u) ==
    {[dimension        |-> k[2],
      score            |-> table[k].score,
      evidence_summary |-> table[k].evidence_summary] :
        k \in {x \in DOMAIN table : x[1] = u}}

\* .from("user_profiles").select("user_id, total_conversations, languages")
\* .eq("user_id", userId).single(): data is null when there is no row
SelectProfile(table, u) ==
    IF u \in DOMAIN table
    THEN <<[user_id             |-> u,
            total_conversations |-> table[u].total_conversations,
            languages           |-> table[u].languages]>>
    ELSE <<>>

\* the invocation once systemPrompt is set
Prompted(userId, scores, profile) ==
    Respond([IdleCall EXCEPT !.op = "chat", !.userId = userId,
                             !.output = scores, !.profile = profile,
                             !.prompt = BuildAdaptiveSystemPrompt(scores, profile)],
            200, NoStr)

\* lines 132-155, one invocation per slot. The two selects read the tables
\* and nothing is written.
\* A select that resolves with an error gives data null (scores ?? [] for
\* the scores); a select that rejects ends the handler, which has no catch.
Chat(s, userId) ==
    /\ calls[s].pc = "idle"
    /\ \/ /\ userId = NoStr
          /\ calls' = [calls EXCEPT ![s] =
                        Respond([IdleCall EXCEPT !.op = "chat",
                                                 !.prompt = <<DefaultPrompt>>],
                                200, NoStr)]
          /\ UNCHANGED faults
       \/ /\ userId # NoStr
          /\ \E rows \in Orderings(SelectScores(behavioral_scores, userId)) :
                calls' = [calls EXCEPT ![s] =
                            Prompted(userId, rows,
                                     SelectProfile(user_profiles, userId))]
          /\ UNCHANGED faults
       \/ /\ userId # NoStr
          /\ \E rows \in Orderings(SelectScores(behavioral_scores, userId)) :
                calls' = [calls EXCEPT ![s] = Prompted(userId, rows, <<>>)]
          /\ Fault
       \/ /\ userId # NoStr
          /\ calls' = [calls EXCEPT ![s] =
                        Prompted(userId, <<>>,
                                 SelectProfile(user_profiles, userId))]
          /\ Fault
       \/ /\ userId # NoStr
          /\ calls' = [calls EXCEPT ![s] =
                        Respond([IdleCall EXCEPT !.op = "chat", !.userId = userId],
                                500, "Internal Server Error")]
          /\ Fault
    /\ UNCHANGED <<upload, conversations, messages, user_profiles, behavioral_scores,
                   ingestion_jobs, clock, okChunks>>

\* The scores a user may have stored: any dimension name (the six of the
\* prompt or another string the provider returned), and of the scores 1 to
\* 10 the table accepts those at and next to the two thresholds 3 and 7.
DimensionPool == Range(DIMENSIONS) \cup {"Mood"}
ScoreRange == {2, 3, 4, 6, 7, 8}

\* evidence_summary is text, or null
EvidenceOf(v) == IF v % 2 = 0 THEN "evidence" ELSE NoStr

\* The storage after one chunk was ingested and generateScores stored at
\* most MaxScores scores for u1, or after the aggregate upsert of the chunk
\* failed (no profile, so no score).
InitChat ==
    /\ upload = IdleUpload
    /\ ingestion_jobs = <<>>
    /\ clock = 0
    /\ calls = [s \in Slots |-> IdleCall]
    /\ faults = 0
    /\ \E ch \in StoredChunks :
        /\ conversations = UpsertConversations(<<>>, ch)
        /\ messages = InsertMessages(<<>>, ch)
        /\ okChunks = <<[jobId |-> "job-1", records |-> ch]>>
        /\ \/ /\ user_profiles = <<>>
              /\ behavioral_scores = <<>>
           \/ /\ user_profiles = UpsertProfiles(<<>>, ch, 0)
              /\ \E D \in {X \in SUBSET DimensionPool : Cardinality(X) <= MaxScores} :
                 \E f \in [D -> ScoreRange] :
                    behavioral_scores =
                        [key \in {<<"u1", d>> : d \in D} |->
                            [score            |-> f[key[2]],
                             confidence       |-> 1,
                             evidence_summary |-> EvidenceOf(f[key[2]]),
                             updated_at       |-> 0]]

\* one request
NextChat == \E u \in UserIds \cup {NoStr} : Chat(1, u)

SpecChat == InitChat /\ [][NextChat]_vars

\* several requests, one after the other, over the same storage
NextChatAgain ==
    \E s \in Slots, u \in UserIds \cup {NoStr} :
        /\ \A t \in 1..(s - 1) : calls[t].pc = "done"
        /\ Chat(s, u)

SpecChatAgain == InitChat /\ [][NextChatAgain]_vars

(***************************************************************************)
(* POST /api/ingest under two clients: the handler takes no lock and opens *)
(* no transaction, so the storage calls of two invocations interleave.     *)
(***************************************************************************)
\* two chunks of the same file that touch the same user and conversation
RaceChunks == {SubSeq(File, 1, 1), SubSeq(File, 2, 3)}

\* the job both chunks name, as createJob stored it
RaceJobs == [j \in JobIds |-> NewJob("data.jsonl", 3)]

InitRace ==
    /\ upload = IdleUpload
    /\ conversations = <<>>
    /\ messages = <<>>
    /\ user_profiles = <<>>
    /\ behavioral_scores = <<>>
    /\ ingestion_jobs = RaceJobs
    /\ clock = 0
    /\ calls = [s \in Slots |-> IdleCall]
    /\ okChunks = <<>>
    /\ faults = 0

\* a request arrives at any time and runs in the next unused slot; the
\* invocations that run take their steps in any order
NextRace ==
    \/ \E s \in Slots, j \in JobIds, ch \in RaceChunks :
          /\ calls[s].pc = "idle"
          /\ \A t \in 1..(s - 1) : calls[t].pc # "idle"
          /\ SubmitChunk(s, j, [kind |-> "array", items |-> ch])
    \/ \E s \in Slots : ConvUpsert(s)
    \/ \E s \in Slots : MsgInsert(s)
    \/ \E s \in Slots : ProfileUpsert(s)
    \/ \E s \in Slots : JobUpdate(s)

SpecRace == InitRace /\ [][NextRace]_vars

(***************************************************************************)
(* The ingest page: handleUpload                                           *)
(***************************************************************************)
\* const CHUNK_SIZE = 500, scaled down to the longest chunk modelled
CHUNK_SIZE == MaxChunkLen

\* the files a user uploads: the first n lines of the file
Files == {SubSeq(File, 1, n) : n \in 0..Len(File)}

\* Slice that leaves out the last record of the range
Slice_DropsLast(records, from, to) ==
    SubSeq(records, from + 1,
           IF to - 1 < Len(records) THEN to - 1 ELSE Len(records))

\* records.slice(from, to), indices counted from 0 and `to` excluded
Slice(records, from, to) ==
    SubSeq(records, from + 1, IF to < Len(records) THEN to ELSE Len(records))

\* for (let i = 0; i < records.length; i += CHUNK_SIZE)
\*   chunks.push(records.slice(i, i + CHUNK_SIZE)): the turns from i on
RECURSIVE ChunksFrom(_, _)
ChunksFrom(records, i) ==
    IF i < Len(records)
    THEN <<Slice(records, i, i + CHUNK_SIZE)>>
            \o ChunksFrom(records, i + CHUNK_SIZE)
    ELSE <<>>

\* a job of an upload made before on the same page, still in state.jobId
\* when a file is dropped without "Upload another file" having been pressed
EarlierJob == "job-0"

EarlierJobs ==
    [j \in {EarlierJob} |->
        [NewJob("data.jsonl", 1) EXCEPT !.status = "completed",
                                        !.processed_records = 1]]

\* the page right after it was mounted or reset, or showing an earlier
\* upload that completed
InitUpload ==
    /\ conversations = <<>>
    /\ messages = <<>>
    /\ user_profiles = <<>>
    /\ behavioral_scores = <<>>
    /\ clock = 0
    /\ calls = [s \in Slots |-> IdleCall]
    /\ okChunks = <<>>
    /\ faults = 0
    /\ \/ /\ upload = IdleUpload
          /\ ingestion_jobs = <<>>
       \/ /\ upload = [IdleUpload EXCEPT !.status = "completed",
                                         !.jobId = EarlierJob]
          /\ ingestion_jobs = EarlierJobs

\* what handleUpload leaves alone while it runs on the page alone
ServerUnchanged ==
    UNCHANGED <<conversations, messages, user_profiles, behavioral_scores,
                ingestion_jobs, clock, calls, okChunks, faults>>

\* lines 474-494: read and parse the file and cut it into chunks; a line
\* that is not JSON makes JSON.parse throw
HandleUpload(file, wellFormed) ==
    /\ upload.pc = "idle"
    /\ upload' =
        IF wellFormed
        THEN [upload EXCEPT !.status = "reading", !.error = NoStr,
                            !.closure = upload.jobId,
                            !.records = file,
                            !.chunks = ChunksFrom(file, 0),
                            !.pc = "createJob"]
        ELSE [upload EXCEPT !.status = "reading", !.error = NoStr,
                            !.closure = upload.jobId,
                            !.msg = "Unexpected token",
                            !.pc = "catch"]
    /\ ServerUnchanged

\* lines 496-517: the job is created and its row returned, or the insert
\* fails, the body holds no job and job.id throws
UploadCreateJob ==
    /\ upload.pc = "createJob"
    /\ \/ /\ InsertJob("data.jsonl", Len(upload.records))
          /\ LET job == CHOOSE j \in DOMAIN ingestion_jobs' :
                            j \notin DOMAIN ingestion_jobs
             IN upload' = [upload EXCEPT !.status = "uploading",
                                         !.jobId = job,
                                         !.job = job,
                                         !.i = 0,
                                         !.totalProcessed = 0,
                                         !.pc = "loop"]
       \/ /\ Fault
          /\ upload' = [upload EXCEPT
                            !.msg = "Cannot read properties of undefined",
                            !.pc = "catch"]
          /\ UNCHANGED <<conversations, messages, user_profiles,
                         behavioral_scores, ingestion_jobs, clock, calls,
                         okChunks>>

\* lines 519-528: fetch("/api/ingest") with chunks[i]
UploadSendChunk ==
    /\ upload.pc = "loop"
    /\ upload.i < Len(upload.chunks)
    /\ PostIngest(1, upload.job,
                  [kind |-> "array", items |-> upload.chunks[upload.i + 1]])
    /\ upload' = [upload EXCEPT !.pc = "awaitChunk"]

\* UploadChunkResponse without the test of res.ok
UploadChunkResponse_IgnoresStatus ==
    /\ upload.pc = "awaitChunk"
    /\ calls[1].pc = "done"
    /\ upload' =
        [upload EXCEPT
            !.totalProcessed = @ + (IF calls[1].status = 200
                                    THEN IngestResponse(calls[1]).processed
                                    ELSE 0),
            !.i = @ + 1,
            !.pc = "loop"]
    /\ ServerUnchanged

\* lines 530-547: the response of the chunk
UploadChunkResponse ==
    /\ upload.pc = "awaitChunk"
    /\ calls[1].pc = "done"
    /\ upload' =
        IF calls[1].status = 200
        THEN [upload EXCEPT
                !.totalProcessed = @ + IngestResponse(calls[1]).processed,
                !.i = @ + 1,
                !.pc = "loop"]
        ELSE [upload EXCEPT
                !.msg = IF calls[1].error # NoStr THEN calls[1].error
                        ELSE "Chunk upload failed",
                !.pc = "catch"]
    /\ ServerUnchanged

\* lines 549-560: after the loop; the response of the PATCH is not looked at
UploadMarkCompleted ==
    /\ upload.pc = "loop"
    /\ upload.i = Len(upload.chunks)
    /\ PatchJob(upload.job, "completed", upload.totalProcessed, NoStr)
    /\ upload' = [upload EXCEPT !.status = "completed", !.pc = "done"]

\* lines 561-577: state.jobId is the one of the closure
UploadCatch ==
    /\ upload.pc = "catch"
    /\ upload' = [upload EXCEPT !.status = "error", !.error = upload.msg,
                                !.pc = "done"]
    /\ IF upload.closure # NoStr
       THEN PatchJob(upload.closure, "failed", Undefined, upload.msg)
       ELSE ServerUnchanged

NextUpload ==
    \/ \E file \in Files, wellFormed \in BOOLEAN : HandleUpload(file, wellFormed)
    \/ UploadCreateJob
    \/ UploadSendChunk
    \/ UploadChunkResponse
    \/ UploadMarkCompleted
    \/ UploadCatch
    \/ \E s \in Slots : ConvUpsert(s)
    \/ \E s \in Slots : MsgInsert(s)
    \/ \E s \in Slots : ProfileUpsert(s)
    \/ \E s \in Slots : JobUpdate(s)

SpecUpload == InitUpload /\ [][NextUpload]_vars

(***************************************************************************)
(* What the claims speak of.                                               *)
(***************************************************************************)
\* the records of all chunks that returned success, in order of arrival
RECURSIVE Flatten(_)
Flatten(chunks) ==
    IF chunks = <<>> THEN <<>> ELSE chunks[1].records \o Flatten(Tail(chunks))

Ingested == Flatten(okChunks)

\* the sum of records.length over the successful chunks of job j
ChunkSum(chunks, j) ==
    SumSeq([i \in DOMAIN chunks |->
                IF chunks[i].jobId = j THEN Len(chunks[i].records) ELSE 0])

\* no (conversation_id, message_index) pair is stored twice
NoDuplicateMessages(table) ==
    \A i, j \in DOMAIN table :
        i # j => \/ table[i].conversation_id # table[j].conversation_id
                 \/ table[i].message_index # table[j].message_index

\* the handler invocation in slot s takes a step, and it is a SubmitChunk
IngestStep(s) == calls'[s] # calls[s] /\ calls'[s].op = "ingest"

\* the step ends a SubmitChunk with a success response
IngestSucceeds(s) ==
    /\ IngestStep(s)
    /\ calls'[s].pc = "done"
    /\ calls'[s].status = 200

(* C1: after every successful SubmitChunk for a job, the job's stored       *)
(* processed_records equals the sum of records.length over all chunks of    *)
(* that job that have returned success so far (here: when no storage call   *)
(* failed, which a handler that ignores the failure would hide).            *)
C1_ProcessedIsSumOfChunks ==
    [][\A s \in Slots :
        (IngestSucceeds(s) /\ faults' = 0 /\ calls[s].jobId \in DOMAIN ingestion_jobs)
        => ingestion_jobs'[calls[s].jobId].processed_records
              = ChunkSum(okChunks', calls[s].jobId)]_vars

(* C2: processed_records of a job is never decremented by any call.         *)
C2_ProcessedNeverDecremented ==
    [][\A j \in DOMAIN ingestion_jobs :
        ingestion_jobs'[j].processed_records
            >= ingestion_jobs[j].processed_records]_vars

\* the edges of pending -> processing -> {completed | failed}
JobEdges ==
    {<<"pending", "processing">>, <<"processing", "completed">>,
     <<"processing", "failed">>}

(* C3: every change of a job's status follows the state machine             *)
(* pending -> processing -> {completed | failed}; a completed or failed     *)
(* job never changes its status again.                                      *)
C3_StatusFollowsStateMachine ==
    [][\A j \in DOMAIN ingestion_jobs :
        \/ ingestion_jobs'[j].status = ingestion_jobs[j].status
        \/ <<ingestion_jobs[j].status, ingestion_jobs'[j].status>> \in JobEdges]_vars

\* the messages ingested for conversation c, and for user u
IngestedOfConv(c) == SelectSeq(Ingested, LAMBDA r : r.conversation_id = c)
IngestedOfUser(u) == SelectSeq(Ingested, LAMBDA r : r.user_id = u)

\* every write so far was made by a chunk that returned success, and no
\* message was sent twice
CleanIngestion ==
    /\ Quiescent
    /\ faults = 0
    /\ NoDuplicateMessages(messages)

(* C4: for a conversation whose messages were ingested by any number of     *)
(* successful chunks, the stored message_count is the number of messages    *)
(* ever ingested for it and turn_count is the maximum conversation_turn     *)
(* over all of them, wherever the chunk boundaries fall.                    *)
C4_ConversationCountsAreMerged ==
    CleanIngestion =>
        \A c \in DOMAIN conversations :
            /\ conversations[c].message_count = Len(IngestedOfConv(c))
            /\ conversations[c].turn_count =
                  Max({TurnOrZero(IngestedOfConv(c)[i]) :
                          i \in DOMAIN IngestedOfConv(c)})

(* C5: for a user whose records were ingested by N successful chunks, the   *)
(* stored total_conversations, total_messages, languages and models_used    *)
(* are those of the records of all N chunks together.                       *)
C5_UserAggregateIsMerged ==
    CleanIngestion =>
        \A u \in DOMAIN user_profiles :
            LET all == IngestedOfUser(u)
            IN /\ user_profiles[u].total_conversations =
                      Cardinality({all[i].conversation_id : i \in DOMAIN all})
               /\ user_profiles[u].total_messages = Len(all)
               /\ Range(user_profiles[u].languages) =
                      {all[i].language : i \in DOMAIN all} \ {NoStr}
               /\ Range(user_profiles[u].models_used) =
                      {all[i].model : i \in DOMAIN all} \ {NoStr}

(* C6: no SubmitChunk that touches a stored conversation leaves its         *)
(* turn_count or its message_count lower than it was (here: already when    *)
(* no storage call has failed).                                             *)
C6_ConversationCountersMonotonic ==
    [][faults' = 0 =>
        \A c \in DOMAIN conversations :
            /\ conversations'[c].turn_count >= conversations[c].turn_count
            /\ conversations'[c].message_count >= conversations[c].message_count]_vars

\* the chunk of slot s holds a (conversation_id, message_index) pair that
\* is already stored
HoldsStoredPair(s) ==
    \E i \in DOMAIN calls[s].body.items, k \in DOMAIN messages :
        /\ calls[s].body.items[i].conversation_id = messages[k].conversation_id
        /\ calls[s].body.items[i].message_index = messages[k].message_index

(* C7: the message insert of a chunk that holds an already stored           *)
(* (conversation_id, message_index) pair fails, the call returns an error,  *)
(* and the stored messages are left as they were (still one per pair);     *)
(* here for a first resubmission, no storage call having failed before.     *)
C7_DuplicateMessageRejected ==
    [][\A s \in Slots :
        (IngestStep(s) /\ calls[s].pc = "msgInsert" /\ HoldsStoredPair(s)
         /\ faults = 0)
        => /\ calls'[s].pc = "done"
           /\ calls'[s].status = 500
           /\ messages' = messages]_vars

\* a records value that is missing, not an array, or an empty array
MissingOrEmpty(body) == body.kind # "array" \/ body.items = <<>>

(* C8: a SubmitChunk whose records value is missing, not an array or empty  *)
(* ends at once with status 400 and writes nothing: conversations,          *)
(* messages, user aggregates and jobs are unchanged by every step of it.    *)
C8_InvalidChunkWritesNothing ==
    [][\A s \in Slots :
        (IngestStep(s) /\ MissingOrEmpty(calls'[s].body))
        => /\ calls'[s].pc = "done"
           /\ calls'[s].status = 400
           /\ UNCHANGED <<conversations, messages, user_profiles,
                          ingestion_jobs>>]_vars

\* C8's case: an empty chunk was refused while data and a job are stored
C8_Witness ==
    \E s \in Slots :
        /\ calls[s].op = "ingest" /\ calls[s].pc = "done"
        /\ calls[s].body = [kind |-> "array", items |-> <<>>]
        /\ calls[s].status = 400
        /\ messages # <<>>
        /\ ingestion_jobs # <<>>

(* C9: no step of a SubmitChunk, successful or failing, changes the status  *)
(* of a job (nor creates or removes a job); a job is never created failed,  *)
(* so a job becomes failed only by an updateJobStatus call.                 *)
C9_SubmitChunkKeepsStatus ==
    [][/\ (\E s \in Slots : IngestStep(s))
          => /\ DOMAIN ingestion_jobs' = DOMAIN ingestion_jobs
             /\ \A j \in DOMAIN ingestion_jobs :
                    ingestion_jobs'[j].status = ingestion_jobs[j].status
       /\ \A j \in DOMAIN ingestion_jobs' :
            (ingestion_jobs'[j].status = "failed"
             /\ (j \notin DOMAIN ingestion_jobs
                 \/ ingestion_jobs[j].status # "failed"))
            => \E pr \in ProcessedValues,
                  em \in ErrorMessages :
                    UpdateJobStatus(j, "failed", pr, em)]_vars

\* C9's case: a chunk failed after its conversation upsert, another chunk
\* succeeded before, and the job is still processing
C9_Witness ==
    \E s \in Slots :
        /\ calls[s].op = "ingest" /\ calls[s].pc = "done"
        /\ calls[s].status = 500
        /\ calls[s].error = "Message insert failed"
        /\ okChunks # <<>>
        /\ calls[s].jobId \in DOMAIN ingestion_jobs
        /\ ingestion_jobs[calls[s].jobId].status = "processing"

\* score, confidence and evidence_summary of each stored dimension
ScoreValues(rows) ==
    [d \in DOMAIN rows |->
        [score            |-> rows[d].score,
         confidence       |-> rows[d].confidence,
         evidence_summary |-> rows[d].evidence_summary]]

(* C10: whenever generateScores returns a failure for a user who had        *)
(* scores stored when the call began, the stored scores of that user        *)
(* (dimensions, score, confidence, evidence_summary) are still exactly      *)
(* those: a failed call overwrites none of them.                            *)
C10_FailedScoringKeepsScores ==
    \A s \in Slots :
        (/\ calls[s].op = "profile" /\ calls[s].pc = "done"
         /\ calls[s].status # 200
         /\ calls[s].pre # <<>>)
        => ScoreValues(ScoresOf(behavioral_scores, calls[s].userId))
              = ScoreValues(calls[s].pre)

\* the handler invocation in slot s takes a step, and it is a generateScores
ProfileStep(s) == calls'[s] # calls[s] /\ calls'[s].op = "profile"

\* the last entry of output for dimension d
LastEntry(output, d) ==
    output[Max({i \in DOMAIN output : output[i].dimension = d})]

(* C11: there is one stored score per (user_id, dimension) and, once a      *)
(* generateScores call has returned success, the stored score, confidence   *)
(* and evidence_summary of every dimension it returned are exactly the      *)
(* returned ones (here: already when no storage or provider call failed).   *)
C11_StoredScoresAreLastReturned ==
    \A s \in Slots :
        (/\ calls[s].op = "profile" /\ calls[s].pc = "done"
         /\ calls[s].status = 200
         /\ faults = 0)
        => \A d \in {calls[s].output[i].dimension : i \in DOMAIN calls[s].output} :
              /\ <<calls[s].userId, d>> \in DOMAIN behavioral_scores
              /\ LET row == behavioral_scores[<<calls[s].userId, d>>]
                     ret == LastEntry(calls[s].output, d)
                 IN /\ row.score = ret.score
                    /\ row.confidence = ret.confidence
                    /\ row.evidence_summary = ret.evidence_summary

\* no message of user u is stored
NoMessagesOf(u) == \A k \in DOMAIN messages : messages[k].user_id # u

(* C12: generateScores for a user with no stored messages never reaches     *)
(* the call of the provider, ends with status 404 (with an error status     *)
(* when the select itself failed), and writes no score and no profile.      *)
C12_NoMessagesIsNotFound ==
    [][\A s \in Slots :
        (ProfileStep(s) /\ calls'[s].userId # NoStr
         /\ NoMessagesOf(calls'[s].userId))
        => /\ calls'[s].pc \in {"selectMessages", "done"}
           /\ calls'[s].pc = "done" => calls'[s].status \in {404, 500}
           /\ (calls'[s].pc = "done" /\ faults' = faults)
                 => /\ calls'[s].status = 404
                    /\ calls'[s].error = "No messages found for this user"
           /\ UNCHANGED <<behavioral_scores, user_profiles>>]_vars

\* C12's case: a user without messages was answered 404 while messages of
\* another user are stored
C12_Witness ==
    \E s \in Slots :
        /\ calls[s].op = "profile" /\ calls[s].pc = "done"
        /\ calls[s].userId # NoStr
        /\ calls[s].status = 404
        /\ faults = 0
        /\ messages # <<>>
        /\ NoMessagesOf(calls[s].userId)

(* C18: a SubmitChunk that writes the aggregate of a user who already has   *)
(* one leaves its first_seen as it was and sets last_seen and updated_at    *)
(* to the processing time of this chunk.                                    *)
C18_FirstSeenIsKept ==
    [][\A s \in Slots :
        (IngestStep(s) /\ calls[s].pc = "profileUpsert"
         /\ user_profiles' # user_profiles)
        => \A u \in UserKeys(Records(s)) \cap DOMAIN user_profiles :
              /\ user_profiles'[u].first_seen = user_profiles[u].first_seen
              /\ user_profiles'[u].last_seen = clock
              /\ user_profiles'[u].updated_at = clock]_vars

\* the number of records of the chunk of slot s for conversation c
ChunkCount(s, c) ==
    Cardinality({i \in DOMAIN Records(s) : Records(s)[i].conversation_id = c})

(* C19: when the message insert of a chunk fails (its conversation upsert   *)
(* having succeeded), the call ends with an error status, the conversation  *)
(* rows of the chunk stay stored, and no step of the call up to there has   *)
(* changed a user aggregate or a job.                                       *)
C19_MessageInsertFailureIsPartial ==
    [][\A s \in Slots :
        /\ (IngestStep(s) /\ calls[s].pc = "msgInsert" /\ messages' = messages)
           => /\ calls'[s].pc = "done"
              /\ calls'[s].status = 500
              /\ conversations' = conversations
              /\ \A c \in ConvKeys(Records(s)) :
                    /\ c \in DOMAIN conversations'
                    /\ conversations'[c].message_count = ChunkCount(s, c)
              /\ UNCHANGED <<user_profiles, ingestion_jobs>>
        /\ (IngestStep(s) /\ calls'[s].pc \in {"convUpsert", "msgInsert"})
           => UNCHANGED <<user_profiles, ingestion_jobs>>]_vars

\* C19's case: the only chunk sent failed at its message insert: its
\* conversations are stored, without messages, aggregates or progress
C19_Witness ==
    \E s \in Slots :
        /\ calls[s].op = "ingest" /\ calls[s].pc = "done"
        /\ calls[s].error = "Message insert failed"
        /\ okChunks = <<>>
        /\ ConvKeys(calls[s].body.items) \subseteq DOMAIN conversations
        /\ messages = <<>>
        /\ user_profiles = <<>>
        /\ calls[s].jobId \in DOMAIN ingestion_jobs
        /\ ingestion_jobs[calls[s].jobId].processed_records = 0

\* the job of the call in slot s carries the progress written by that call
ProgressWritten(s) ==
    /\ calls[s].op = "ingest" /\ calls[s].pc = "done" /\ calls[s].status = 200
    /\ calls[s].jobId \in DOMAIN ingestion_jobs
    /\ ingestion_jobs[calls[s].jobId].processed_records = Len(calls[s].body.items)

(* C20: the writes of a SubmitChunk come in the order conversations,        *)
(* messages, user aggregates, job progress: once a call is past its         *)
(* conversation upsert the conversations of its chunk are stored, and a     *)
(* job never shows the progress of a chunk whose conversations or user      *)
(* aggregates are not stored.                                               *)
C20_ProgressIsWrittenLast ==
    \A s \in Slots :
        /\ (calls[s].op = "ingest"
            /\ calls[s].pc \in {"msgInsert", "profileUpsert", "jobUpdate"})
           => ConvKeys(calls[s].body.items) \subseteq DOMAIN conversations
        /\ ProgressWritten(s)
           => /\ ConvKeys(calls[s].body.items) \subseteq DOMAIN conversations
              /\ UserKeys(calls[s].body.items) \subseteq DOMAIN user_profiles

\* the chat invocation of slot s has set its system prompt for a user
ChatDone(s) ==
    /\ calls[s].op = "chat" /\ calls[s].pc = "done"
    /\ calls[s].status = 200
    /\ calls[s].userId # NoStr

\* the per-dimension directives, and those among the lines of a prompt, in
\* the order of the lines
AllDirectives ==
    {LowDirective[d] : d \in Range(DIMENSIONS)}
    \cup {HighDirective[d] : d \in Range(DIMENSIONS)}

DirectivesIn(prompt) ==
    LET kept == SelectSeq(prompt, LAMBDA l : l.kind = "text"
                                            /\ l.text \in AllDirectives)
    IN [i \in DOMAIN kept |-> kept[i].text]

(* C13: for each of the six dimensions the prompt holds the low directive   *)
(* of the dimension iff a score of that dimension was given with score <= 3 *)
(* and the high directive iff one was given with score >= 7; it holds none  *)
(* for a score between them or an absent dimension, and never both.         *)
C13_DirectiveTiers ==
    \A s \in Slots :
        ChatDone(s) =>
            LET held == Range(DirectivesIn(calls[s].prompt))
            IN \A d \in Range(DIMENSIONS) :
                LET given == {r \in Range(calls[s].output) : r.dimension = d}
                IN /\ LowDirective[d] \in held <=> \E r \in given : r.score <= 3
                   /\ HighDirective[d] \in held <=> \E r \in given : r.score >= 7
                   /\ ~(LowDirective[d] \in held /\ HighDirective[d] \in held)

\* C13's case: Patience 2 and Verbosity 8 give the IMPATIENT and DETAILED
\* directives and no other
C13_Witness ==
    \E s \in Slots :
        /\ ChatDone(s)
        /\ {<<r.dimension, r.score>> : r \in Range(calls[s].output)}
              = {<<"Patience", 2>>, <<"Verbosity", 8>>}
        /\ Range(DirectivesIn(calls[s].prompt))
              = {LowDirective["Patience"], HighDirective["Verbosity"]}

(* C14: composing the system prompt writes nothing to storage, and two      *)
(* invocations given the same set of scores, in whatever order the select   *)
(* returned the rows, and the same profile produce the same prompt.         *)
C14_PromptIsDeterministic ==
    [][\A s \in Slots :
        (calls'[s] # calls[s] /\ calls'[s].op = "chat")
        => /\ UNCHANGED <<conversations, messages, user_profiles,
                          behavioral_scores, ingestion_jobs>>
           /\ \A t \in Slots \ {s} :
                (/\ ChatDone(t)
                 /\ calls'[s].status = 200
                 /\ calls'[s].userId = calls[t].userId
                 /\ Range(calls'[s].output) = Range(calls[t].output)
                 /\ calls'[s].profile = calls[t].profile)
                => calls'[s].prompt = calls[t].prompt]_vars

\* the place of the dimension of a directive in the canonical order
Rank(text) ==
    CHOOSE k \in DOMAIN DIMENSIONS :
        text \in {LowDirective[DIMENSIONS[k]], HighDirective[DIMENSIONS[k]]}

(* C15: the directives of a prompt follow the order Patience, Technical     *)
(* Depth, Frustration Tolerance, Verbosity, Politeness, Engagement Level,   *)
(* and every other order of the same rows gives the same directives in the  *)
(* same order.                                                              *)
C15_DirectivesInCanonicalOrder ==
    \A s \in Slots :
        ChatDone(s) =>
            LET dirs == DirectivesIn(calls[s].prompt)
            IN /\ \A i, j \in DOMAIN dirs : i < j => Rank(dirs[i]) < Rank(dirs[j])
               /\ \A q \in Orderings(Range(calls[s].output)) :
                    DirectivesIn(BuildAdaptiveSystemPrompt(q, calls[s].profile))
                        = dirs

\* C15's case: the rows came with Verbosity before Patience and the prompt
\* has the directive of Patience before that of Verbosity
C15_Witness ==
    \E s \in Slots :
        /\ ChatDone(s)
        /\ Len(calls[s].output) = 2
        /\ calls[s].output[1].dimension = "Verbosity"
        /\ calls[s].output[2].dimension = "Patience"
        /\ Len(DirectivesIn(calls[s].prompt)) = 2
        /\ DirectivesIn(calls[s].prompt)[1]
              \in {LowDirective["Patience"], HighDirective["Patience"]}

(* C16: for a user without stored scores the prompt is the base prompt and  *)
(* the neutral fallback directive: no per-dimension directive, no line of   *)
(* a scores summary.                                                        *)
C16_EmptyScoresGiveFallback ==
    \A s \in Slots :
        (ChatDone(s) /\ SelectScores(behavioral_scores, calls[s].userId) = {})
        => /\ calls[s].prompt = <<basePrompt, BlankLine, NeutralFallback>>
           /\ DirectivesIn(calls[s].prompt) = <<>>
           /\ \A i \in DOMAIN calls[s].prompt : calls[s].prompt[i].kind # "score"

\* C16's case: a user with a profile but no score got the fallback
C16_Witness ==
    \E s \in Slots :
        /\ ChatDone(s)
        /\ calls[s].profile # <<>>
        /\ SelectScores(behavioral_scores, calls[s].userId) = {}
        /\ NeutralFallback \in Range(calls[s].prompt)

(* C17: for a non-empty list of scores the prompt holds one summary line    *)
(* per score given, carrying its dimension and its numeric value, and the   *)
(* instruction not to mention the profile or the scoring system, whatever   *)
(* directives were emitted.                                                 *)
C17_SummaryAndSecrecy ==
    \A s \in Slots :
        (ChatDone(s) /\ calls[s].output # <<>>)
        => LET summary == SelectSeq(calls[s].prompt, LAMBDA l : l.kind = "score")
           IN /\ Len(summary) = Len(calls[s].output)
              /\ \A i \in DOMAIN summary :
                    /\ summary[i].text = calls[s].output[i].dimension
                    /\ summary[i].num = calls[s].output[i].score
              /\ ImportantNote \in Range(calls[s].prompt)

\* C17's case: two scores, one of a dimension without directives, none of
\* them low or high: no directive, yet the summary and the instruction
C17_Witness ==
    \E s \in Slots :
        /\ ChatDone(s)
        /\ Len(calls[s].output) = 2
        /\ \E i \in DOMAIN calls[s].output : calls[s].output[i].dimension = "Mood"
        /\ DirectivesIn(calls[s].prompt) = <<>>
        /\ BalancedStyle \in Range(calls[s].prompt)
        /\ ImportantNote \in Range(calls[s].prompt)


\* the dimensions generateScores call s got from the provider
Returned(s) == {calls[s].output[i].dimension : i \in DOMAIN calls[s].output}

\* the returned dimensions whose row call s wrote: the row carries the time
\* of the call and the last returned values
WrittenBy(s) ==
    {d \in Returned(s) :
        /\ <<calls[s].userId, d>> \in DOMAIN behavioral_scores
        /\ LET row == behavioral_scores[<<calls[s].userId, d>>]
               ret == LastEntry(calls[s].output, d)
           IN /\ row.updated_at = clock
              /\ row.score = ret.score
              /\ row.confidence = ret.confidence
              /\ row.evidence_summary = ret.evidence_summary}

(* C22: a generateScores call that returned success has stored every        *)
(* dimension the provider returned, and no call that is over has stored     *)
(* some of the returned dimensions and not the others (here: already when  *)
(* no storage or provider call failed).                                     *)
C22_AllReturnedDimensionsStored ==
    \A s \in Slots :
        (calls[s].op = "profile" /\ calls[s].pc = "done" /\ faults = 0)
        => /\ calls[s].status = 200 => WrittenBy(s) = Returned(s)
           /\ WrittenBy(s) = {} \/ WrittenBy(s) = Returned(s)

(* C23: the dimension of every stored score is one of the six of            *)
(* DIMENSIONS.                                                              *)
C23_StoredDimensionsAreKnown ==
    \A key \in DOMAIN behavioral_scores : key[2] \in Range(DIMENSIONS)

\* profile_generated of user u goes from false to true in this step
FlagRaised(u) ==
    /\ u \in DOMAIN user_profiles /\ u \in DOMAIN user_profiles'
    /\ ~user_profiles[u].profile_generated
    /\ user_profiles'[u].profile_generated

(* C24: profile_generated of a user becomes true only in the step of a      *)
(* generateScores call for that user that comes after the upsert of every   *)
(* returned dimension was issued (when no storage call failed, every        *)
(* returned dimension the table accepts is stored by then), and that call   *)
(* returns success; a call that is before its dimension writes (selecting   *)
(* the messages, waiting for the provider) changes no UserAggregate.        *)
C24_FlagSetAfterAllUpserts ==
    [][/\ \A u \in UserIds :
            FlagRaised(u)
            => \E s \in Slots :
                  /\ calls[s].op = "profile" /\ calls[s].pc = "markProfile"
                  /\ calls[s].userId = u
                  /\ calls[s].output # <<>> => calls[s].k > Len(calls[s].output)
                  /\ calls'[s].pc = "done" /\ calls'[s].status = 200
                  /\ faults = 0
                     => \A i \in DOMAIN calls[s].output :
                           ScoreRowAccepted(user_profiles, u, calls[s].output[i])
                           => <<u, calls[s].output[i].dimension>>
                                 \in DOMAIN behavioral_scores
       /\ \A s \in Slots :
            (ProfileStep(s)
             /\ calls[s].pc \in {"idle", "done", "selectMessages", "generateText"})
            => UNCHANGED user_profiles]_vars

\* C24's case: a call that returned two dimensions has stored both and then
\* set profile_generated
C24_Witness ==
    \E s \in Slots :
        /\ calls[s].op = "profile" /\ calls[s].pc = "done"
        /\ calls[s].status = 200
        /\ Len(calls[s].output) = 2
        /\ Cardinality(WrittenBy(s)) = 2
        /\ calls[s].userId \in DOMAIN user_profiles
        /\ user_profiles[calls[s].userId].profile_generated


(* C26: a SubmitChunk that returned success has stored the Conversation of  *)
(* every conversation of its chunk, a Message for every record of it, and   *)
(* the UserAggregate of every user of it.                                   *)
C26_SuccessMeansAllPersisted ==
    \A s \in Slots :
        (calls[s].op = "ingest" /\ calls[s].pc = "done" /\ calls[s].status = 200)
        => /\ ConvKeys(Records(s)) \subseteq DOMAIN conversations
           /\ \A i \in DOMAIN Records(s) :
                 \E k \in DOMAIN messages : messages[k] = MsgRow(Records(s)[i])
           /\ UserKeys(Records(s)) \subseteq DOMAIN user_profiles

(* C27: every Job whose status is failed has a non-empty error_message.     *)
C27_FailedJobHasErrorMessage ==
    \A j \in DOMAIN ingestion_jobs :
        ingestion_jobs[j].status = "failed"
        => ingestion_jobs[j].error_message # NoStr


\* invocation s of SubmitChunk is between two of its storage calls
InFlight(s) ==
    /\ calls[s].op = "ingest"
    /\ calls[s].pc \in {"convUpsert", "msgInsert", "profileUpsert", "jobUpdate"}

\* the next storage call of invocation s
StorageStep(s) == ConvUpsert(s) \/ MsgInsert(s) \/ ProfileUpsert(s) \/ JobUpdate(s)

\* the rows of the UserAggregates without their timestamps
Timeless(profiles) ==
    [u \in DOMAIN profiles |->
        [total_conversations           |-> profiles[u].total_conversations,
         total_messages                |-> profiles[u].total_messages,
         languages                     |-> profiles[u].languages,
         models_used                   |-> profiles[u].models_used,
         avg_turns_per_conversation    |-> profiles[u].avg_turns_per_conversation,
         avg_messages_per_conversation |-> profiles[u].avg_messages_per_conversation,
         profile_generated             |-> profiles[u].profile_generated]]

\* the Conversation, UserAggregate and Job rows now stored
StoredRows ==
    [conversations |-> conversations,
     profiles      |-> Timeless(user_profiles),
     jobs          |-> ingestion_jobs]

\* the rows stored after SubmitChunk(first) ran to its end and then
\* SubmitChunk(second) did, from the storage of InitRace
SerialRows(first, second) ==
    [conversations |->
        UpsertConversations(UpsertConversations(<<>>, first), second),
     profiles      |->
        Timeless(UpsertProfiles(UpsertProfiles(<<>>, first, 1), second, 2)),
     jobs          |->
        UpdateJobProgress(UpdateJobProgress(RaceJobs, "job-1", first),
                          "job-1", second)]

(* C25: two SubmitChunk calls race. While one invocation is between two of  *)
(* its storage calls, nothing holds back the other: its next storage call   *)
(* can be the next step, and a new request is taken into any free slot. So  *)
(* the writes of the two calls interleave in every order (C25_Witness is a  *)
(* final state that neither serial order produces).                         *)
C25_SubmitChunksInterleave ==
    \A t \in Slots :
        (\E s \in Slots \ {t} : InFlight(s))
        => /\ InFlight(t) => ENABLED StorageStep(t)
           /\ (Free(t) /\ clock < MaxTime)
                 => \A ch \in RaceChunks :
                       ENABLED SubmitChunk(t, "job-1",
                                           [kind |-> "array", items |-> ch])

\* C25's case: both calls returned success, no storage call failed, and the
\* stored Conversation, UserAggregate and Job rows are those of neither
\* serial execution
C25_Witness ==
    \E s \in Slots : \E t \in Slots \ {s} :
        /\ calls[s].op = "ingest" /\ calls[s].pc = "done" /\ calls[s].status = 200
        /\ calls[t].op = "ingest" /\ calls[t].pc = "done" /\ calls[t].status = 200
        /\ Records(s) # Records(t)
        /\ faults = 0
        /\ Len(okChunks) = 2
        /\ StoredRows # SerialRows(Records(s), Records(t))
        /\ StoredRows # SerialRows(Records(t), Records(s))


\* a new SubmitChunk invocation begins in slot s in this step
ChunkSubmitted(s) ==
    /\ Free(s)
    /\ calls'[s] # calls[s]
    /\ calls'[s].op = "ingest"

\* the first n chunks of the upload, as successful SubmitChunk calls
SucceededChunks(n) ==
    [k \in 1..n |-> [jobId |-> upload.job, records |-> upload.chunks[k]]]

(* C21: whenever the upload flow submits a chunk, no other chunk request    *)
(* is running, the chunk is the next one in index order, and every chunk    *)
(* before it returned success, in that order; so nothing is submitted       *)
(* after a chunk that failed.                                               *)
C21_ChunksOneAtATimeInOrder ==
    [][\A s \in Slots :
        ChunkSubmitted(s)
        => /\ Quiescent
           /\ upload.pc = "loop"
           /\ upload.i < Len(upload.chunks)
           /\ calls'[s].body.items = upload.chunks[upload.i + 1]
           /\ calls'[s].jobId = upload.job
           /\ okChunks = SucceededChunks(upload.i)]_vars

\* C21's case: the second chunk is in flight after the first one returned
\* success
C21_Witness ==
    /\ upload.pc = "awaitChunk"
    /\ upload.i = 1
    /\ ~Free(1)
    /\ okChunks = SucceededChunks(1)

\* the concatenation of a sequence of sequences
RECURSIVE Concat(_)
Concat(seqs) ==
    IF seqs = <<>> THEN <<>> ELSE seqs[1] \o Concat(Tail(seqs))

(* C28: once handleUpload has cut the records into chunks, the chunks       *)
(* concatenated in index order are the record list, every chunk but the     *)
(* last has CHUNK_SIZE records, no chunk is empty or longer, the job the    *)
(* upload created has total_records equal to the sum of the chunk lengths,  *)
(* and a completed upload has submitted exactly the record list.            *)
C28_ChunksPartitionTheRecords ==
    upload.pc \notin {"idle", "catch"} \/ upload.job # NoStr
    => LET chunks == upload.chunks
       IN /\ Concat(chunks) = upload.records
          /\ \A k \in DOMAIN chunks :
                /\ Len(chunks[k]) >= 1
                /\ Len(chunks[k]) <= CHUNK_SIZE
                /\ k < Len(chunks) => Len(chunks[k]) = CHUNK_SIZE
          /\ upload.job # NoStr
                => ingestion_jobs[upload.job].total_records
                      = SumSeq([k \in DOMAIN chunks |-> Len(chunks[k])])
          /\ upload.status = "completed" => Flatten(okChunks) = upload.records

\* C28's case: the job was created for a file cut into several chunks, the
\* last one shorter than CHUNK_SIZE
C28_Witness ==
    /\ upload.job # NoStr
    /\ upload.job \in DOMAIN ingestion_jobs
    /\ Len(upload.chunks) >= 2
    /\ Len(upload.chunks[Len(upload.chunks)]) < CHUNK_SIZE
    /\ upload.status = "completed"

(* C29: an upload that created its job ends by marking it: when its loop    *)
(* is over it issues updateJobStatus(completed) for the job, and when it    *)
(* fails after the job was created it issues updateJobStatus(failed,        *)
(* errorMessage) for that job.                                              *)
C29_UploadMarksItsJob ==
    [][(upload.job # NoStr /\ upload'.pc = "done" /\ upload.pc # "done")
        => \/ /\ upload.pc = "loop"
              /\ PatchJob(upload.job, "completed", upload.totalProcessed, NoStr)
           \/ /\ upload.pc = "catch"
              /\ PatchJob(upload.job, "failed", Undefined, upload.msg)]_vars

(* C30: whenever the page shows the upload as completed, the job it         *)
(* created is stored with status completed and processed_records equal to   *)
(* total_records, the sum of the chunk lengths.                             *)
C30_CompletedPageMeansCompletedJob ==
    (upload.status = "completed" /\ upload.job # NoStr)
    => /\ upload.job \in DOMAIN ingestion_jobs
       /\ ingestion_jobs[upload.job].status = "completed"
       /\ ingestion_jobs[upload.job].processed_records
             = ingestion_jobs[upload.job].total_records
       /\ ingestion_jobs[upload.job].total_records
             = SumSeq([k \in DOMAIN upload.chunks |-> Len(upload.chunks[k])])

====
